---- MODULE Spec2Model ----
(***************************************************************************)
(* Model of StockAgentSystem (src/stock_agent_system.py) and Config        *)
(* (src/config.py): construction, the analyze_query coroutine with its     *)
(* single await point, the convenience wrappers, and the session history.  *)
(*                                                                         *)
(* Python dicts are records whose DOMAIN is the dict's key set, so a dict  *)
(* without a "success" key is a record without a success field.  The       *)
(* session history is the sequence of the dicts in the list the attribute  *)
(* names.  get_session_history hands out that list itself, so a caller may  *)
(* hold it; `held` follows the one list a caller holds, which stays the    *)
(* current list until clear_session_history rebinds the attribute.         *)
(***************************************************************************)
EXTENDS Integers, Sequences, FiniteSets, TLC

(* ---------------------------- bounds ----------------------------------- *)
MaxCalls == 2       \* number of query-processing calls made on the facade
MaxTime == 1        \* largest reading of the event-loop clock

(* ------------------------- program constants --------------------------- *)
OPENAI_MODEL == "gpt-4"
MAX_ITERATIONS == 10
MASTER_AGENT_TEMPERATURE == 7          \* tenths: 0.7
JUNIOR_AGENT_TEMPERATURE == 5          \* tenths: 0.5
ORCHESTRATOR_AGENT_TEMPERATURE == 3    \* tenths: 0.3

(* ------------------------------ values --------------------------------- *)
None == "None"                      \* Python None where a string may stand
NoAgent == [kind |-> "None"]        \* Python None where an agent may stand
NoTools == [kind |-> "None"]        \* self.stock_tools not yet assigned
NoResult == [none |-> TRUE]         \* the call has not returned a value
NoReturn == [op |-> "none"]         \* no introspection call has returned
NoList == [ref |-> "none", list |-> <<>>]   \* the caller holds no list

Falsy(v) == v \in {None, ""}        \* `not v` for an Optional[str]

Tasks == 1..MaxCalls

VARIABLES
    config,           \* Config class attributes, read from the environment
    constructed,      \* "no" | "ok" | "raised": outcome of __init__
    init_log,         \* calls __init__ has made, in order
    stock_tools,      \* self.stock_tools
    orchestrator,     \* self.orchestrator
    junior_agent,     \* self.junior_agent
    master_agent,     \* self.master_agent
    is_initialized,   \* self.is_initialized
    session_history,  \* self.session_history
    now,              \* the latest reading of asyncio.get_event_loop().time()
    tasks,            \* the query-processing calls (coroutines)
    returned,         \* what the latest introspection call gave its caller
    held,             \* the list a caller got from get_session_history:
                      \* ref "current" while the attribute still names it,
                      \* "old" with its contents once it was replaced
    crossed           \* the calls that were suspended when the held list
                      \* was replaced

vars == <<config, constructed, init_log, stock_tools, orchestrator,
          junior_agent, master_agent, is_initialized, session_history,
          now, tasks, returned, held, crossed>>

(* ------------------------------ Config --------------------------------- *)
\* os.getenv gives None for an unset variable and "" for one set empty.
OpenAIKeys == {None, "", "sk-test"}
AlphaKeys == {None, "", "av-key"}
FinnhubKeys == {None, "", "fh-key"}

\* Every environment the class attributes can be loaded from.
AllConfigs ==
    [OPENAI_API_KEY : OpenAIKeys,
     ALPHA_VANTAGE_API_KEY : AlphaKeys,
     FINNHUB_API_KEY : FinnhubKeys,
     VERBOSE : BOOLEAN]

\* The environments query processing is explored from: the LLM credential
\* in each of its three states, with and without a stock credential.
Configs ==
    {cfg \in AllConfigs :
        /\ cfg.ALPHA_VANTAGE_API_KEY \in {None, "av-key"}
        /\ cfg.FINNHUB_API_KEY = None
        /\ cfg.VERBOSE}

\* validate_config testing the credential with `is None`: an empty value
\* passes.
ValidateConfigNoneOnly(cfg) ==
    IF cfg.OPENAI_API_KEY = None
    THEN [raises |-> TRUE, warns |-> FALSE]
    ELSE [raises |-> FALSE,
          warns |-> Falsy(cfg.ALPHA_VANTAGE_API_KEY)
                    /\ Falsy(cfg.FINNHUB_API_KEY)]

\* Config.validate_config: raises ValueError without the LLM credential,
\* prints a warning when neither stock credential is set.
ValidateConfig(cfg) ==
    IF Falsy(cfg.OPENAI_API_KEY)
    THEN [raises |-> TRUE, warns |-> FALSE]
    ELSE [raises |-> FALSE,
          warns |-> Falsy(cfg.ALPHA_VANTAGE_API_KEY)
                    /\ Falsy(cfg.FINNHUB_API_KEY)]

\* get_stock_api_key with the operands in the other order.
GetStockApiKeySecondaryFirst(cfg) ==
    IF ~Falsy(cfg.FINNHUB_API_KEY)
    THEN cfg.FINNHUB_API_KEY
    ELSE cfg.ALPHA_VANTAGE_API_KEY

\* Config.get_stock_api_key: `ALPHA_VANTAGE_API_KEY or FINNHUB_API_KEY`
GetStockApiKey(cfg) ==
    IF ~Falsy(cfg.ALPHA_VANTAGE_API_KEY)
    THEN cfg.ALPHA_VANTAGE_API_KEY
    ELSE cfg.FINNHUB_API_KEY

(* --------------------------- construction ------------------------------ *)
\* The external constructor or call that raises during __init__, if any.
FailPoints ==
    {"none", "get_stock_tools", "OrchestratorAgent", "JuniorAgent",
     "MasterAgent", "setup_agents"}

\* An agent built without its temperature argument, left at one default.
AgentDefaultTemperature(kind, temperature, tools, verbose) ==
    [kind |-> kind, temperature |-> 0, tools |-> tools, verbose |-> verbose]

\* OrchestratorAgent(...), JuniorAgent(...), MasterAgent(...): the agent
\* keeps the arguments it was constructed with.
Agent(kind, temperature, tools, verbose) ==
    [kind |-> kind, temperature |-> temperature, tools |-> tools,
     verbose |-> verbose]

\* _initialize_system whose except clause does not reset the flag, the flag
\* having been set before the constructions.
InitializeSystemFlagFirst(cfg, tools, fail) ==
    [orchestrator |->
        IF fail = "OrchestratorAgent" THEN NoAgent
        ELSE Agent("orchestrator", ORCHESTRATOR_AGENT_TEMPERATURE, tools,
                   cfg.VERBOSE),
     junior_agent |->
        IF fail \in {"OrchestratorAgent", "JuniorAgent"} THEN NoAgent
        ELSE Agent("junior", JUNIOR_AGENT_TEMPERATURE, tools, cfg.VERBOSE),
     master_agent |->
        IF fail \in {"OrchestratorAgent", "JuniorAgent", "MasterAgent"}
        THEN NoAgent
        ELSE Agent("master", MASTER_AGENT_TEMPERATURE, tools, cfg.VERBOSE),
     is_initialized |-> TRUE,
     log |-> IF fail = "none" THEN <<"OrchestratorAgent">>
             ELSE <<"OrchestratorAgent", "except">>]

\* StockAgentSystem._initialize_system: the three constructions and the
\* wiring inside one try block.  An exception raised by `fail` runs the
\* except clause ("except" in the log), which sets is_initialized False
\* and keeps whatever was assigned before the exception.
InitializeSystem(cfg, tools, fail) ==
    LET o == Agent("orchestrator", ORCHESTRATOR_AGENT_TEMPERATURE, tools,
                   cfg.VERBOSE)
        j == Agent("junior", JUNIOR_AGENT_TEMPERATURE, tools, cfg.VERBOSE)
        m == Agent("master", MASTER_AGENT_TEMPERATURE, tools, cfg.VERBOSE)
    IN  CASE fail = "OrchestratorAgent" ->
               [orchestrator |-> NoAgent, junior_agent |-> NoAgent,
                master_agent |-> NoAgent, is_initialized |-> FALSE,
                log |-> <<"OrchestratorAgent", "except">>]
          [] fail = "JuniorAgent" ->
               [orchestrator |-> o, junior_agent |-> NoAgent,
                master_agent |-> NoAgent, is_initialized |-> FALSE,
                log |-> <<"OrchestratorAgent", "JuniorAgent", "except">>]
          [] fail = "MasterAgent" ->
               [orchestrator |-> o, junior_agent |-> j,
                master_agent |-> NoAgent, is_initialized |-> FALSE,
                log |-> <<"OrchestratorAgent", "JuniorAgent", "MasterAgent",
                          "except">>]
          [] fail = "setup_agents" ->
               [orchestrator |-> o, junior_agent |-> j,
                master_agent |-> m, is_initialized |-> FALSE,
                log |-> <<"OrchestratorAgent", "JuniorAgent", "MasterAgent",
                          "setup_agents", "except">>]
          [] OTHER ->
               [orchestrator |-> o, junior_agent |-> j,
                master_agent |-> m, is_initialized |-> TRUE,
                log |-> <<"OrchestratorAgent", "JuniorAgent", "MasterAgent",
                          "setup_agents">>]

\* The calls validate_config accounts for in init_log.
ValidateLog(cfg) ==
    IF ValidateConfig(cfg).warns
    THEN <<"validate_config", "warning">>
    ELSE <<"validate_config">>

\* StockAgentSystem.__init__
Construct(fail) ==
    /\ constructed = "no"
    /\ IF ValidateConfig(config).raises
       THEN /\ constructed' = "raised"
            /\ init_log' = ValidateLog(config)
            /\ UNCHANGED <<stock_tools, orchestrator, junior_agent,
                           master_agent, is_initialized>>
       ELSE IF fail = "get_stock_tools"
       THEN /\ constructed' = "raised"
            /\ init_log' = ValidateLog(config) \o <<"get_stock_tools">>
            /\ UNCHANGED <<stock_tools, orchestrator, junior_agent,
                           master_agent, is_initialized>>
       ELSE LET tools == [kind |-> "tools",
                          api_key |-> GetStockApiKey(config)]
                sys == InitializeSystem(config, tools, fail)
            IN  /\ constructed' = "ok"
                /\ init_log' = ValidateLog(config) \o <<"get_stock_tools">>
                                   \o sys.log
                /\ stock_tools' = tools
                /\ orchestrator' = sys.orchestrator
                /\ junior_agent' = sys.junior_agent
                /\ master_agent' = sys.master_agent
                /\ is_initialized' = sys.is_initialized
    /\ UNCHANGED <<config, session_history, now, tasks>>
    /\ UNCHANGED <<returned, held, crossed>>

(* -------------------------- query processing --------------------------- *)
Symbols == {"AAPL"}
SymbolLists == {<<"AAPL", "MSFT">>}
Topics == {"AI"}
Queries == {"Get the current stock price for AAPL"}

SymbolOps == {"get_stock_price", "get_stock_info", "analyze_stock"}
ListOps == {"compare_stocks", "portfolio_analysis"}
Wrappers == SymbolOps \cup ListOps \cup {"market_research"}

\* What orchestrate_analysis can hand back: a well-formed AgentResult,
\* success with output or failure with error.
OrchResults ==
    {[success |-> TRUE, output |-> "AAPL: 150.0", agent |-> "junior"],
     [success |-> FALSE, error |-> "unknown symbol", agent |-> "master"]}

\* str(e) of what orchestrate_analysis can raise.
ExceptionTexts == {"rate limit"}

\* ", ".join(symbols)
RECURSIVE Join(_)
Join(symbols) ==
    IF symbols = <<>> THEN ""
    ELSE IF Len(symbols) = 1 THEN Head(symbols)
    ELSE Head(symbols) \o ", " \o Join(Tail(symbols))

\* The templates with portfolio_analysis carrying compare_stocks' text.
ExpandCopied(op, arg) ==
    CASE op = "get_stock_price" -> "Get the current stock price for " \o arg
      [] op = "get_stock_info" -> "Get detailed information about " \o arg
      [] op = "analyze_stock" -> "Perform comprehensive analysis of " \o arg
      [] op = "compare_stocks" -> "Compare these stocks: " \o Join(arg)
      [] op = "portfolio_analysis" -> "Compare these stocks: " \o Join(arg)
      [] op = "market_research" -> "Research the market for: " \o arg
      [] OTHER -> arg

\* The f-string each entry point passes to analyze_query; analyze_query
\* itself takes the query as given.
Expand(op, arg) ==
    CASE op = "get_stock_price" -> "Get the current stock price for " \o arg
      [] op = "get_stock_info" -> "Get detailed information about " \o arg
      [] op = "analyze_stock" -> "Perform comprehensive analysis of " \o arg
      [] op = "compare_stocks" -> "Compare these stocks: " \o Join(arg)
      [] op = "portfolio_analysis" -> "Analyze this portfolio: " \o Join(arg)
      [] op = "market_research" -> "Research the market for: " \o arg
      [] OTHER -> arg

\* analyze_query, line 72
NotInitializedResult == [error |-> "System not initialized"]

\* The except clause returning the query without the error text.
ExceptionResultNoError(query, text) == [query |-> query]

\* analyze_query, lines 88-91
ExceptionResult(query, text) ==
    [error |-> "Analysis failed: " \o text, query |-> query]

\* analyze_query, lines 79-83: the dict appended to the history
HistoryEntry(query, result, time) ==
    [query |-> query, result |-> result, timestamp |-> time]

\* An append done twice.
AppendHistoryTwice(list, entry) == Append(Append(list, entry), entry)

\* A history rebuilt from the new entry alone.
AppendHistoryLost(list, entry) == <<entry>>

\* An insert at the front.
AppendHistoryFront(list, entry) == <<entry>> \o list

\* list.append
AppendHistory(list, entry) == Append(list, entry)

\* `return await self.analyze_query(...)` in each wrapper
WrapperReturn(op, result) == result

\* An entry point is called: a wrapper expands its template and calls
\* analyze_query, which runs up to its first suspension, the await of
\* orchestrate_analysis, or to its return when the system is not
\* initialized.  Calls are numbered in the order they are made.
Call(t, op, arg) ==
    /\ constructed = "ok"
    /\ tasks[t].state = "idle"
    /\ IF t = 1 THEN TRUE ELSE tasks[t - 1].state # "idle"
    /\ LET q == Expand(op, arg)
       IN  IF ~is_initialized
           THEN tasks' = [tasks EXCEPT ![t] =
                    [@ EXCEPT !.state = "done", !.op = op, !.arg = arg,
                              !.query = q, !.path = "guard",
                              !.result = NotInitializedResult,
                              !.ret = WrapperReturn(op, NotInitializedResult),
                              !.analyze_calls = @ + 1]]
           ELSE tasks' = [tasks EXCEPT ![t] =
                    [@ EXCEPT !.state = "awaiting", !.op = op, !.arg = arg,
                              !.query = q,
                              !.analyze_calls = @ + 1,
                              !.orch_calls = @ + 1]]
    /\ UNCHANGED <<config, constructed, init_log, stock_tools, orchestrator,
                   junior_agent, master_agent, is_initialized,
                   session_history, now>>
    /\ UNCHANGED <<returned, held, crossed>>

\* The append of a coroutine that took the list before the await and kept
\* it: a call suspended across the clear writes to the replaced list.
AppendToCaptured(current, caller, stale, entry) ==
    IF stale /\ caller.ref = "old"
    THEN [current |-> current,
          caller |-> [caller EXCEPT !.list = Append(@, entry)]]
    ELSE [current |-> AppendHistory(current, entry), caller |-> caller]

\* `self.session_history.append(...)`: the attribute is read when the
\* statement runs, after the await, so the entry goes to the list the
\* attribute names then, and a list replaced meanwhile is not written.
AppendTo(current, caller, stale, entry) ==
    [current |-> AppendHistory(current, entry), caller |-> caller]

\* A reading of the loop's monotonic clock: no earlier than the latest one.
ClockReadings == now..MaxTime

\* orchestrate_analysis returns r: the coroutine resumes, reads the clock,
\* appends the entry to self.session_history as it is at that moment, and
\* returns r.
OrchReturn(t, r, time) ==
    /\ tasks[t].state = "awaiting"
    /\ now' = time
    /\ LET lists == AppendTo(session_history, held, t \in crossed,
                             HistoryEntry(tasks[t].query, r, time))
       IN  /\ session_history' = lists.current
           /\ held' = lists.caller
    /\ tasks' = [tasks EXCEPT ![t] =
                    [@ EXCEPT !.state = "done", !.path = "returned",
                              !.result = r,
                              !.ret = WrapperReturn(tasks[t].op, r),
                              !.appends = @ + 1]]
    /\ UNCHANGED <<config, constructed, init_log, stock_tools, orchestrator,
                   junior_agent, master_agent, is_initialized>>
    /\ UNCHANGED <<returned, crossed>>

\* orchestrate_analysis raises an Exception whose str() is text: the
\* except clause returns the error dict; nothing is appended.
OrchRaise(t, text) ==
    /\ tasks[t].state = "awaiting"
    /\ tasks' = [tasks EXCEPT ![t] =
                    [@ EXCEPT !.state = "done", !.path = "raised",
                              !.result = ExceptionResult(tasks[t].query, text),
                              !.ret = WrapperReturn(tasks[t].op,
                                          ExceptionResult(tasks[t].query, text))]]
    /\ UNCHANGED <<config, constructed, init_log, stock_tools, orchestrator,
                   junior_agent, master_agent, is_initialized,
                   session_history, now>>
    /\ UNCHANGED <<returned, held, crossed>>

\* A clear that keeps the latest entry.
ClearedListKeepLast(old) ==
    IF old = <<>> THEN <<>> ELSE <<old[Len(old)]>>

\* The right-hand side of `self.session_history = []`
ClearedList(old) == <<>>

\* clear_session_history: binds the attribute to a new, empty list; a
\* caller holding the list named until now keeps it, with its contents.
ClearSessionHistory ==
    /\ constructed = "ok"
    /\ session_history' = ClearedList(session_history)
    /\ IF held.ref = "current"
       THEN /\ held' = [ref |-> "old", list |-> session_history]
            /\ crossed' = {t \in Tasks : tasks[t].state = "awaiting"}
       ELSE UNCHANGED <<held, crossed>>
    /\ UNCHANGED <<config, constructed, init_log, stock_tools, orchestrator,
                   junior_agent, master_agent, is_initialized, now, tasks,
                   returned>>

\* get_session_history: `return self.session_history`
GetSessionHistory == session_history

\* A caller calls get_session_history and keeps the list it is given.
CallGetSessionHistory ==
    /\ constructed = "ok"
    /\ held' = [ref |-> "current", list |-> <<>>]
    /\ crossed' = {}
    /\ UNCHANGED <<config, constructed, init_log, stock_tools, orchestrator,
                   junior_agent, master_agent, is_initialized,
                   session_history, now, tasks, returned>>

(* ---------------------------- introspection ---------------------------- *)
Returns(value) == [raised |-> FALSE, value |-> value]
Raises(exception) == [raised |-> TRUE, value |-> exception]

\* The {name, description} of the tools get_stock_tools builds.
ToolDescriptors ==
    <<[name |-> "get current price",
       description |-> "Get the current price of a stock"],
      [name |-> "get company info",
       description |-> "Get company information for a stock"]>>

\* agent.get_capabilities(): a static list per agent.
Capabilities(kind) ==
    IF kind = "junior"
    THEN <<"Stock price lookup", "Company information">>
    ELSE <<"Comprehensive analysis", "Stock comparison",
           "Portfolio analysis", "Market research">>

\* get_system_status; len(None) is a TypeError.
GetSystemStatus ==
    IF stock_tools = NoTools THEN Raises("TypeError")
    ELSE Returns(
        [initialized |-> is_initialized,
         config |-> [model |-> OPENAI_MODEL, verbose |-> config.VERBOSE,
                     max_iterations |-> MAX_ITERATIONS],
         agents |-> [orchestrator |-> orchestrator # NoAgent,
                     junior |-> junior_agent # NoAgent,
                     master |-> master_agent # NoAgent],
         tools |-> Len(ToolDescriptors),
         session_history_length |-> Len(session_history)])

\* get_agent_capabilities calling get_capabilities on whatever the fields
\* hold, with neither the is_initialized guard nor the None tests.
GetAgentCapabilitiesUnguarded ==
    IF junior_agent = NoAgent \/ master_agent = NoAgent
    THEN Raises("AttributeError")
    ELSE Returns(
        [orchestrator |-> <<"Coordinate between agents",
                            "Route queries appropriately",
                            "Synthesize results", "Quality control">>,
         junior |-> Capabilities("junior"),
         master |-> Capabilities("master")])

\* get_agent_capabilities: {} when not initialized; [] for an agent that
\* is None.
GetAgentCapabilities ==
    IF ~is_initialized THEN Returns(<<>>)
    ELSE Returns(
        [orchestrator |-> <<"Coordinate between agents",
                            "Route queries appropriately",
                            "Synthesize results", "Quality control">>,
         junior |-> IF junior_agent # NoAgent
                    THEN Capabilities("junior") ELSE <<>>,
         master |-> IF master_agent # NoAgent
                    THEN Capabilities("master") ELSE <<>>])

\* get_available_tools; iterating None is a TypeError.
GetAvailableTools ==
    IF stock_tools = NoTools THEN Raises("TypeError")
    ELSE Returns([i \in DOMAIN ToolDescriptors |->
                     [name |-> ToolDescriptors[i].name,
                      description |-> ToolDescriptors[i].description]])

\* An introspection method is called on the constructed system and its
\* outcome reaches the caller; the methods assign nothing.
Introspect(op, outcome) ==
    /\ constructed = "ok"
    /\ returned' = [op |-> op, raised |-> outcome.raised,
                    value |-> outcome.value]
    /\ UNCHANGED <<config, constructed, init_log, stock_tools, orchestrator,
                   junior_agent, master_agent, is_initialized,
                   session_history, now, tasks, held, crossed>>

CallGetSystemStatus == Introspect("get_system_status", GetSystemStatus)
CallGetAgentCapabilities ==
    Introspect("get_agent_capabilities", GetAgentCapabilities)
CallGetAvailableTools == Introspect("get_available_tools", GetAvailableTools)

(* ------------------------------ Init ----------------------------------- *)
IdleTask ==
    [state |-> "idle", op |-> "none", arg |-> "", query |-> "",
     path |-> "none", result |-> NoResult, ret |-> NoResult,
     analyze_calls |-> 0, orch_calls |-> 0, appends |-> 0]

\* Before __init__ runs: the fields hold the values __init__ first assigns.
InitFrom(configs) ==
    /\ config \in configs
    /\ constructed = "no"
    /\ init_log = <<>>
    /\ stock_tools = NoTools
    /\ orchestrator = NoAgent
    /\ junior_agent = NoAgent
    /\ master_agent = NoAgent
    /\ is_initialized = FALSE
    /\ session_history = <<>>
    /\ now = 0
    /\ tasks = [t \in Tasks |-> IdleTask]
    /\ returned = NoReturn
    /\ held = NoList
    /\ crossed = {}

Init == InitFrom(Configs)

CallAnalyzeQuery == \E t \in Tasks, q \in Queries : Call(t, "analyze_query", q)
CallSymbolWrapper ==
    \E t \in Tasks, op \in SymbolOps, s \in Symbols : Call(t, op, s)
CallListWrapper ==
    \E t \in Tasks, op \in ListOps, l \in SymbolLists : Call(t, op, l)
CallMarketResearch ==
    \E t \in Tasks, topic \in Topics : Call(t, "market_research", topic)

Next ==
    \/ \E fail \in FailPoints : Construct(fail)
    \/ CallAnalyzeQuery
    \/ CallSymbolWrapper
    \/ CallListWrapper
    \/ CallMarketResearch
    \/ \E t \in Tasks, r \in OrchResults, time \in ClockReadings :
           OrchReturn(t, r, time)
    \/ \E t \in Tasks, text \in ExceptionTexts : OrchRaise(t, text)
    \/ ClearSessionHistory

Spec == Init /\ [][Next]_vars

\* Construction alone, from every environment.
InitConfig == InitFrom(AllConfigs)

NextConfig == \E fail \in FailPoints : Construct(fail)

SpecConfig == InitConfig /\ [][NextConfig]_vars

\* Query processing with no clear_session_history in between.
NextCalls ==
    \/ \E fail \in FailPoints : Construct(fail)
    \/ CallAnalyzeQuery
    \/ CallSymbolWrapper
    \/ CallListWrapper
    \/ CallMarketResearch
    \/ \E t \in Tasks, r \in OrchResults, time \in ClockReadings :
           OrchReturn(t, r, time)
    \/ \E t \in Tasks, text \in ExceptionTexts : OrchRaise(t, text)

SpecCalls == Init /\ [][NextCalls]_vars

\* The facade as its callers see it: analyze_query, clear, the three
\* introspection methods and a caller keeping the list of
\* get_session_history.  The wrappers add only other query texts.
NextObserve ==
    \/ \E fail \in FailPoints : Construct(fail)
    \/ CallAnalyzeQuery
    \/ \E t \in Tasks, r \in OrchResults, time \in ClockReadings :
           OrchReturn(t, r, time)
    \/ \E t \in Tasks, text \in ExceptionTexts : OrchRaise(t, text)
    \/ ClearSessionHistory
    \/ CallGetSessionHistory
    \/ CallGetSystemStatus
    \/ CallGetAgentCapabilities
    \/ CallGetAvailableTools

SpecObserve == Init /\ [][NextObserve]_vars

TypeOK ==
    /\ constructed \in {"no", "ok", "raised"}
    /\ is_initialized \in BOOLEAN
    /\ Len(session_history) <= MaxCalls
    /\ now \in 0..MaxTime
    /\ held.ref \in {"none", "current", "old"}
    /\ crossed \subseteq Tasks

(* ------------------------------ claims --------------------------------- *)
Done(t) == tasks[t].state = "done"
Awaiting(t) == tasks[t].state = "awaiting"
\* The step in which call t resumes from the await and returns.
Resumes(t) == tasks[t].state = "awaiting" /\ tasks'[t].state = "done"
\* dict d has key k
Has(d, k) == k \in DOMAIN d
\* Only clear_session_history changes the history and no call's state.
ClearStep == tasks' = tasks /\ session_history' # session_history
AgentFields == <<orchestrator, junior_agent, master_agent, is_initialized,
                 stock_tools, config, constructed, init_log>>

\* C1: when is_initialized is false, analyze_query returns
\* {success: false, error: "System not initialized"}, does not invoke the
\* orchestrator and appends nothing to session_history.
C1_NotInitialized ==
    \A t \in Tasks :
        (Done(t) /\ ~is_initialized) =>
            /\ tasks[t].result =
                   [success |-> FALSE, error |-> "System not initialized"]
            /\ tasks[t].orch_calls = 0
            /\ tasks[t].appends = 0
            /\ session_history = <<>>

\* C2 as claimed: every call that reaches the orchestrator makes the history
\* one entry longer when it completes, whether the orchestration returned or
\* raised.
C2_EveryCompletionAppends ==
    [][\A t \in Tasks :
          Resumes(t) => Len(session_history') = Len(session_history) + 1]_vars

\* C2 as amended: a call whose orchestration returns a result, success or
\* failure, makes the history exactly one entry longer when it completes; a
\* call whose orchestration raises leaves the history as it was.
C2_ReturnAppendsRaiseDoesNot ==
    [][\A t \in Tasks :
          Resumes(t) =>
              IF tasks'[t].path = "returned"
              THEN Len(session_history') = Len(session_history) + 1
              ELSE /\ tasks'[t].path = "raised"
                   /\ session_history' = session_history]_vars

C2_Witness ==
    \E t1, t2 \in Tasks :
        /\ tasks[t1].path = "returned"
        /\ tasks[t1].result.success = FALSE
        /\ tasks[t2].path = "raised"
        /\ Len(session_history) = 1

\* C3: when orchestrate_analysis raises during analyze_query(q), the call
\* returns a failure result with success = false, a non-empty error message
\* and the original query q.
C3_RaiseGivesFailureResult ==
    \A t \in Tasks :
        tasks[t].path = "raised" =>
            /\ Done(t)
            /\ Has(tasks[t].result, "success")
            /\ tasks[t].result.success = FALSE
            /\ Has(tasks[t].result, "error")
            /\ tasks[t].result.error # ""
            /\ Has(tasks[t].result, "query")
            /\ tasks[t].result.query = tasks[t].query

\* C4 as claimed: on an initialized system, once no call is awaiting, the
\* history is as long as the number of completed calls and every completed
\* call has exactly one entry in it.
C4_OneEntryPerCompletedCall ==
    (is_initialized /\ \A t \in Tasks : ~Awaiting(t)) =>
        /\ Len(session_history) = Cardinality({t \in Tasks : Done(t)})
        /\ \A t \in Tasks : Done(t) => tasks[t].appends = 1

\* C4 as amended: on an initialized system with no clear_session_history in
\* between, once no call is awaiting, the history is as long as the number
\* of calls whose orchestration returned a result; each of those calls
\* appended exactly one entry, which is in the history, and a call whose
\* orchestration raised appended none.
C4_OneEntryPerReturnedCall ==
    (is_initialized /\ \A t \in Tasks : ~Awaiting(t)) =>
        LET Returned == {t \in Tasks : tasks[t].path = "returned"}
        IN  /\ Len(session_history) = Cardinality(Returned)
            /\ \A t \in Returned :
                   /\ tasks[t].appends = 1
                   /\ \E i \in DOMAIN session_history :
                          /\ session_history[i].query = tasks[t].query
                          /\ session_history[i].result = tasks[t].result
            /\ \A t \in Tasks \ Returned : tasks[t].appends = 0

\* Two overlapping calls, the second completing first.
C4_Witness ==
    /\ MaxCalls >= 2
    /\ tasks[1].path = "returned"
    /\ tasks[2].path = "returned"
    /\ tasks[1].query # tasks[2].query
    /\ Len(session_history) = 2
    /\ session_history[1].query = tasks[2].query
    /\ \A t \in Tasks : ~Awaiting(t)

\* C5: in any state of a constructed system, get_session_history right
\* after clear_session_history gives the empty sequence and nothing else
\* has changed, and clearing a cleared history gives the same history as
\* clearing once.
C5_ClearThenGetEmpty ==
    /\ [](ClearedList(ClearedList(session_history))
              = ClearedList(session_history))
    /\ [][ClearStep =>
              /\ GetSessionHistory' = <<>>
              /\ UNCHANGED <<AgentFields, now>>]_vars

\* A history of two entries has been cleared.
C5_Witness ==
    /\ GetSessionHistory = <<>>
    /\ Cardinality({t \in Tasks : tasks[t].appends = 1}) >= 2

\* C6: every change of the history is the append of one entry at its end or
\* the reset to empty by clear_session_history, and the timestamps are
\* non-decreasing in history order, also when calls complete in another
\* order than they were started.
C6_AppendOnlyChronological ==
    /\ [](\A i, j \in DOMAIN session_history :
              i <= j =>
                  session_history[i].timestamp <= session_history[j].timestamp)
    /\ [][\/ session_history' = session_history
          \/ /\ \E t \in Tasks : Resumes(t)
             /\ Len(session_history') = Len(session_history) + 1
             /\ SubSeq(session_history', 1, Len(session_history))
                    = session_history
          \/ /\ ClearStep
             /\ session_history' = <<>>]_vars

\* The call started second completed first, at an earlier clock reading.
C6_Witness ==
    /\ MaxCalls >= 2
    /\ Len(session_history) = 2
    /\ tasks[1].query # tasks[2].query
    /\ session_history[1].query = tasks[2].query
    /\ session_history[2].query = tasks[1].query
    /\ session_history[1].timestamp < session_history[2].timestamp

\* C7: for a non-empty query, on every path of analyze_query, the result has
\* exactly one of output and error.
C7_ExactlyOneOfOutputError ==
    \A t \in Tasks :
        (Done(t) /\ tasks[t].query # "") =>
            /\ Has(tasks[t].result, "output") \/ Has(tasks[t].result, "error")
            /\ ~(Has(tasks[t].result, "output")
                   /\ Has(tasks[t].result, "error"))

C7_Witness ==
    \E t \in Tasks :
        /\ Done(t)
        /\ tasks[t].query # ""
        /\ tasks[t].path = "raised"

\* C8: is_initialized = true implies that validation succeeded and that the
\* orchestrator, the junior agent and the master agent are all non-null; and
\* when an agent construction or setup_agents raised, construction completed
\* and is_initialized is false.
C8_InitializedMeansAllBuilt ==
    /\ is_initialized =>
           /\ constructed = "ok"
           /\ config.OPENAI_API_KEY \notin {None, ""}
           /\ orchestrator # NoAgent
           /\ junior_agent # NoAgent
           /\ master_agent # NoAgent
    /\ (\E i \in DOMAIN init_log : init_log[i] = "except") =>
           /\ constructed = "ok"
           /\ ~is_initialized

\* An initialized system with a call in flight.
C8_Witness ==
    /\ is_initialized
    /\ \E t \in Tasks : Awaiting(t)

\* C9: without the LLM credential, construction raises in validate_config,
\* before get_stock_tools and before any agent is constructed, and
\* is_initialized is never true.
C9_NoCredentialNoSystem ==
    config.OPENAI_API_KEY \in {None, ""} =>
        /\ ~is_initialized
        /\ constructed # "no" =>
               /\ constructed = "raised"
               /\ \A i \in DOMAIN init_log :
                      init_log[i] \notin {"get_stock_tools", "OrchestratorAgent",
                                          "JuniorAgent", "MasterAgent",
                                          "setup_agents"}
               /\ stock_tools = NoTools
               /\ orchestrator = NoAgent
               /\ junior_agent = NoAgent
               /\ master_agent = NoAgent

\* Construction was attempted with the credential set to the empty string.
C9_Witness ==
    /\ config.OPENAI_API_KEY = ""
    /\ constructed = "raised"

\* The query each wrapper is documented to send, for the arguments explored.
C10_Expected(op, arg) ==
    CASE op = "get_stock_price" /\ arg = "AAPL" ->
             "Get the current stock price for AAPL"
      [] op = "get_stock_info" /\ arg = "AAPL" ->
             "Get detailed information about AAPL"
      [] op = "analyze_stock" /\ arg = "AAPL" ->
             "Perform comprehensive analysis of AAPL"
      [] op = "compare_stocks" /\ arg = <<"AAPL", "MSFT">> ->
             "Compare these stocks: AAPL, MSFT"
      [] op = "portfolio_analysis" /\ arg = <<"AAPL", "MSFT">> ->
             "Analyze this portfolio: AAPL, MSFT"
      [] op = "market_research" /\ arg = "AI" ->
             "Research the market for: AI"
      [] OTHER -> "?"

\* C10: each wrapper makes exactly one analyze_query call, on its expanded
\* query, returns that call's result unchanged, appends at most one entry,
\* whose query is the expanded text, and changes nothing else.
C10_WrapperIsOneAnalyzeQuery ==
    /\ [](\A t \in Tasks :
              tasks[t].op \in Wrappers =>
                  /\ tasks[t].analyze_calls = 1
                  /\ tasks[t].appends <= 1
                  /\ tasks[t].query = C10_Expected(tasks[t].op, tasks[t].arg)
                  /\ Done(t) => tasks[t].ret = tasks[t].result)
    /\ [][\A t \in Tasks :
              (Resumes(t) /\ tasks[t].op \in Wrappers) =>
                  /\ UNCHANGED AgentFields
                  /\ tasks'[t].path = "returned" =>
                         session_history' =
                             Append(session_history,
                                    [query |-> C10_Expected(tasks[t].op,
                                                            tasks[t].arg),
                                     result |-> tasks'[t].ret,
                                     timestamp |-> now'])]_vars

C10_Witness ==
    \E t \in Tasks :
        /\ tasks[t].op = "portfolio_analysis"
        /\ tasks[t].path = "returned"
        /\ Len(session_history) >= 1
        /\ session_history[Len(session_history)].query
               = "Analyze this portfolio: AAPL, MSFT"

InLog(event) == \E i \in DOMAIN init_log : init_log[i] = event
\* The environment variable holds a non-empty value.
IsSet(v) == v \notin {None, ""}
NeitherStockKey ==
    ~IsSet(config.ALPHA_VANTAGE_API_KEY) /\ ~IsSet(config.FINNHUB_API_KEY)
\* The credential the claim says is handed to get_stock_tools.
C12_Selected ==
    IF IsSet(config.ALPHA_VANTAGE_API_KEY) THEN stock_tools.api_key = "av-key"
    ELSE IF IsSet(config.FINNHUB_API_KEY) THEN stock_tools.api_key = "fh-key"
    ELSE stock_tools.api_key \in {None, ""}

\* C12 as claimed: the primary credential is used whenever it is set, the
\* secondary only when the primary is absent, none when neither is set; when
\* neither is set the warning is emitted and construction proceeds to
\* get_stock_tools; the warning is emitted only when neither is set.
C12_PreferenceAndWarning ==
    constructed # "no" =>
        /\ constructed = "ok" => C12_Selected
        /\ NeitherStockKey => InLog("warning") /\ InLog("get_stock_tools")
        /\ InLog("warning") => NeitherStockKey

\* C12 as amended: as claimed, the warning and the continuation in the
\* neither-set case being those of a construction that has the LLM
\* credential; without it validate_config raises before the warning.
C12_PreferenceAndWarningWithLLMKey ==
    constructed # "no" =>
        /\ constructed = "ok" => C12_Selected
        /\ (NeitherStockKey /\ IsSet(config.OPENAI_API_KEY)) =>
               InLog("warning") /\ InLog("get_stock_tools")
        /\ InLog("warning") => NeitherStockKey
        /\ ~IsSet(config.OPENAI_API_KEY) =>
               ~InLog("warning") /\ ~InLog("get_stock_tools")

\* The primary is set empty and the secondary is used.
C12_Witness ==
    /\ constructed = "ok"
    /\ config.ALPHA_VANTAGE_API_KEY = ""
    /\ config.FINNHUB_API_KEY = "fh-key"
    /\ stock_tools.api_key = "fh-key"
    /\ ~InLog("warning")

BothAgentsBuilt == junior_agent # NoAgent /\ master_agent # NoAgent

\* C13 as claimed: with the default temperatures, the MasterAgent is
\* constructed with a lower temperature than the JuniorAgent.
C13_MasterBelowJunior ==
    BothAgentsBuilt => master_agent.temperature < junior_agent.temperature

\* C13 as amended: with the default temperatures, the MasterAgent is
\* constructed with a higher temperature (0.7) than the JuniorAgent (0.5).
C13_MasterAboveJunior ==
    BothAgentsBuilt =>
        /\ master_agent.temperature > junior_agent.temperature
        /\ master_agent.temperature = 7
        /\ junior_agent.temperature = 5

C13_Witness ==
    /\ is_initialized
    /\ BothAgentsBuilt
    /\ master_agent.kind = "master"
    /\ junior_agent.kind = "junior"

\* The step in which an introspection call hands its outcome to the caller.
IntrospectionStep(op) == returned' # returned /\ returned'.op = op

\* C11: get_system_status, get_agent_capabilities and get_available_tools
\* are read-only and total: on every constructed system, also one that is
\* not initialized and has agents that are None, each returns a value
\* without raising and leaves is_initialized, session_history and the agent
\* references as they were; get_agent_capabilities returns the empty mapping
\* when not initialized, and the session_history_length of get_system_status
\* is the current length of session_history.
C11_IntrospectionReadOnlyTotal ==
    [][(returned' # returned) =>
          /\ returned'.op \in {"get_system_status", "get_agent_capabilities",
                               "get_available_tools"}
          /\ ~returned'.raised
          /\ UNCHANGED <<is_initialized, session_history, orchestrator,
                         junior_agent, master_agent, stock_tools>>
          /\ (IntrospectionStep("get_agent_capabilities")
                  /\ ~is_initialized) => DOMAIN returned'.value = {}
          /\ IntrospectionStep("get_system_status") =>
                 /\ returned'.value.session_history_length =
                        Len(session_history)
                 /\ returned'.value.initialized = is_initialized
          /\ IntrospectionStep("get_available_tools") =>
                 \A i \in DOMAIN returned'.value :
                     DOMAIN returned'.value[i] = {"name", "description"}]_vars

\* get_agent_capabilities gave the empty mapping on a system whose
\* initialization failed after the junior agent was built.
C11_Witness ==
    /\ constructed = "ok"
    /\ ~is_initialized
    /\ junior_agent # NoAgent
    /\ master_agent = NoAgent
    /\ returned.op = "get_agent_capabilities"
    /\ ~returned.raised
    /\ DOMAIN returned.value = {}

\* C14: clear_session_history does not cancel the calls in flight.  A call
\* that was suspended at the orchestrator when the history was cleared
\* appends its entry, when the orchestration returns, to the list the
\* attribute names then (the post-clear list), and the replaced list, which
\* a caller may still hold, is never written again.  So the history can be
\* non-empty after a clear although no call was started after it
\* (C14_Witness).
C14_ResumedCallWritesCurrentList ==
    [][/\ \A t \in Tasks :
              (Resumes(t) /\ tasks'[t].path = "returned") =>
                  /\ session_history' =
                         Append(session_history,
                                [query |-> tasks[t].query,
                                 result |-> tasks'[t].result,
                                 timestamp |-> now'])
                  /\ held' = held
       /\ (held.ref = "old" /\ held'.ref = "old") => held'.list = held.list]_vars

\* The only call ever started was suspended across the clear; it has
\* returned and its entry is the whole history, and the list replaced by the
\* clear is as the caller got it.
C14_Witness ==
    \E t \in crossed :
        /\ Done(t) /\ tasks[t].path = "returned"
        /\ \A u \in Tasks \ {t} : tasks[u].state = "idle"
        /\ held = [ref |-> "old", list |-> <<>>]
        /\ Len(session_history) = 1
        /\ session_history[1].query = tasks[t].query
        /\ session_history[1].result = tasks[t].result

====
